---- MODULE Spec2Model ----
(***************************************************************************)
(* TECMFS: a RAID-5 coordinator (controller/raid5.py, RAID5Manager) in     *)
(* front of num_disks block-store nodes (disk_node/main.py).               *)
(*                                                                         *)
(* Byte strings are sequences of 0..255.  Text strings that the code       *)
(* formats, sorts or parses (block ids) are sequences of character codes;  *)
(* a uuid4 file id is one opaque character 1000+k, k being the number of   *)
(* uuids drawn so far (uuid4 values are fresh).  A disk id "disk_<k>" is   *)
(* the number k.                                                           *)
(***************************************************************************)
EXTENDS Integers, Sequences, FiniteSets, TLC

VARIABLES
    disk_nodes,          \* RAID5Manager.disk_nodes: disk id -> liveness flag
    file_metadata,       \* RAID5Manager.file_metadata: file id -> FileMetadata
    next_stripe_number,  \* RAID5Manager.next_stripe_number
    metadata_doc,        \* the persisted document metadata.json
    node_up,             \* the disk ids whose node process answers requests
    node_blocks,         \* per node: the block files of its storage directory
    node_used,           \* per node: config.used_space_bytes
    node_capacity,       \* per node: config.capacity_bytes
    node_io_error,       \* the disk ids whose block files cannot be read (IOError)
    node_read_only,      \* the disk ids whose storage cannot be written (IOError)
    coordinator_up,      \* whether the coordinator process is running
    in_flight,           \* upload requests whose body is read and store_file not yet run
    uuid_count,          \* how many uuid4 file ids have been drawn
    fail_count,          \* how many node outages have begun
    last,                \* the reply to the latest request
    status_code,         \* the HTTP status of the latest reply
    reconstruction_ran,  \* whether the latest download called _reconstruct_data
    last_full,           \* the disk ids that answered 507 in the latest request
    last_asked,          \* per disk id: the requests the latest handler sent to the node
    answer,              \* the ids the latest list, search or status reply names
    reconstructed_data,  \* the blocks _reconstruct_data returned in the latest download
    last_download,       \* history: the download reply that the latest delete came right after
    uploads,             \* history: what each upload was given, by file id
    stripe_log,          \* history: recorded parity disk index of every stripe written
    stripe_numbers,      \* history: the global stripe numbers given to each upload
    overlapped,          \* history: file ids whose request was in flight with another
    deleted,             \* history: file ids whose delete_file returned True
    codec_input,         \* the list of byte strings given to the parity codec
    codec_output         \* what _calculate_parity returned for it

\* the coordinator's memory and its document
coordVars == <<disk_nodes, file_metadata, next_stripe_number, metadata_doc>>

\* the node processes and their storage
nodeVars == <<node_up, node_blocks, node_used, node_capacity, node_io_error,
              node_read_only>>

\* what the latest request showed
replyVars == <<last, status_code, reconstruction_ran, last_full, last_asked, answer,
              reconstructed_data, last_download>>

\* history
histVars == <<uuid_count, fail_count, uploads, stripe_log, stripe_numbers, overlapped,
              deleted>>

\* the parity codec called on its own
codecVars == <<codec_input, codec_output>>

vars == <<coordVars, nodeVars, replyVars, histVars, coordinator_up, in_flight, codecVars>>

----------------------------------------------------------------------------
(* Configuration and bounds *)

num_disks == 4

block_size == 2

MaxUploads == 2

MaxFailures == 2

LongStripes == 11

\* config.capacity_bytes of a node that never fills up
Capacity == 1024

DiskIds == 1..num_disks

StripePayload == block_size * (num_disks - 1)

\* config.capacity_bytes of a node with room for one block and not for two
SmallCapacity == block_size + 1

\* Loops are written  CHOOSE r \in {Rest(next) : next \in {Pass}} : TRUE,
\* which is Rest(Pass): the state after one pass is bound to next, and the
\* remaining passes start from it.

Min(a, b) == IF a < b THEN a ELSE b

Max(a, b) == IF a < b THEN b ELSE a

----------------------------------------------------------------------------
(* Bytes, hex transport encoding, text *)

RECURSIVE XorByte(_, _)
XorByte(a, b) ==
    IF a = 0 THEN b
    ELSE IF b = 0 THEN a
    ELSE (((a % 2) + (b % 2)) % 2) + 2 * XorByte(a \div 2, b \div 2)

Zeros(n) == [i \in 1..n |-> 0]

\* bytes.hex(): two hex digits per byte, high nibble first
Hex(data) ==
    [i \in 1..(2 * Len(data)) |->
        IF (i % 2) = 1 THEN data[(i + 1) \div 2] \div 16 ELSE data[i \div 2] % 16]

\* binascii.unhexlify / bytes.fromhex
Unhex(h) == [i \in 1..(Len(h) \div 2) |-> 16 * h[2 * i - 1] + h[2 * i]]

Underscore == 95

\* str(n) for n >= 0, as character codes
RECURSIVE IntToStr(_)
IntToStr(n) ==
    IF n < 10 THEN <<48 + n>> ELSE IntToStr(n \div 10) \o <<48 + (n % 10)>>

\* int(s) for a string of decimal digits
RECURSIVE StrToInt(_)
StrToInt(s) ==
    IF Len(s) = 0 THEN 0
    ELSE 10 * StrToInt(SubSeq(s, 1, Len(s) - 1)) + (s[Len(s)] - 48)

\* s.split('_')
RECURSIVE Split(_)
Split(s) ==
    IF \A i \in 1..Len(s) : s[i] # Underscore THEN <<s>>
    ELSE LET k == CHOOSE i \in 1..Len(s) :
                      s[i] = Underscore /\ \A j \in 1..(i - 1) : s[j] # Underscore
         IN <<SubSeq(s, 1, k - 1)>> \o Split(SubSeq(s, k + 1, Len(s)))

\* Python's str ordering: code point by code point, a proper prefix first
StrLess(a, b) ==
    LET differ == {i \in 1..Min(Len(a), Len(b)) : a[i] # b[i]}
    IN IF differ = {} THEN Len(a) < Len(b)
       ELSE LET first == CHOOSE i \in differ : \A j \in differ : i <= j
            IN a[first] < b[first]

\* the position sorted() gives s[i]: after every smaller string, and after
\* the equal strings that come before it (the sort is stable)
SortedPosition(s, i) ==
    1 + Cardinality({j \in 1..Len(s) :
                        StrLess(s[j], s[i]) \/ (s[j] = s[i] /\ j < i)})

\* sorted(list of str)
Sorted(s) ==
    [p \in 1..Len(s) |-> s[CHOOSE i \in 1..Len(s) : SortedPosition(s, i) = p]]

BlockWord == <<98, 108, 111, 99, 107>>

ParityWord == <<112, 97, 114, 105, 116, 121>>

\* faulty variant: every upload draws the same file id
FileIdStr_same(k) == <<1000>>

FileIdStr(k) == <<1000 + k>>

----------------------------------------------------------------------------
(* Ordered dicts: sequences of <<key, value>> pairs, keys unique *)

Keys(d) == [i \in 1..Len(d) |-> d[i][1]]

HasKey(d, k) == \E i \in 1..Len(d) : d[i][1] = k

Get(d, k) == d[CHOOSE i \in 1..Len(d) : d[i][1] = k][2]

Put(d, k, v) ==
    IF HasKey(d, k)
    THEN [i \in 1..Len(d) |-> IF d[i][1] = k THEN <<k, v>> ELSE d[i]]
    ELSE Append(d, <<k, v>>)

\* d1 updated with the entries lo..hi of d2, in order
RECURSIVE UpdateFrom(_, _, _, _)
UpdateFrom(d1, d2, lo, hi) ==
    IF lo > hi THEN d1
    ELSE IF lo = hi THEN Put(d1, d2[lo][1], d2[lo][2])
    ELSE LET mid == (lo + hi) \div 2
         IN CHOOSE r \in {UpdateFrom(d, d2, mid + 1, hi) :
                              d \in {UpdateFrom(d1, d2, lo, mid)}} : TRUE

\* d1 | d2
DictUnion(d1, d2) == UpdateFrom(d1, d2, 1, Len(d2))

----------------------------------------------------------------------------
(* Disk node: disk_node/main.py.  A node's storage directory is a function *)
(* from block id to the bytes of the block file.                           *)

NoBlocks == [b \in {} |-> <<>>]

WriteBlock(dir, block_id, data) ==
    [b \in (DOMAIN dir) \cup {block_id} |-> IF b = block_id THEN data ELSE dir[b]]

RemoveBlock(dir, block_id) == [b \in (DOMAIN dir) \ {block_id} |-> dir[b]]

\* POST /store, on a node with used bytes taken of capacity; io_error:
\* open(block_path, "wb") raises IOError
store_block(dir, used, capacity, io_error, block_id, hex_data) ==
    LET data_bytes == Unhex(hex_data)
    IN IF used + Len(data_bytes) > capacity
       THEN [code |-> 507, dir |-> dir, used |-> used, data |-> <<>>]
       ELSE IF io_error
       THEN [code |-> 500, dir |-> dir, used |-> used, data |-> <<>>]
       ELSE [code |-> 201, dir |-> WriteBlock(dir, block_id, data_bytes),
             used |-> used + Len(data_bytes), data |-> <<>>]

\* GET /retrieve/{block_id}; io_error: reading a block file raises IOError
retrieve_block(dir, io_error, block_id) ==
    IF block_id \notin DOMAIN dir
    THEN [code |-> 404, dir |-> dir, data |-> <<>>]
    ELSE IF io_error
    THEN [code |-> 500, dir |-> dir, data |-> <<>>]
    ELSE [code |-> 200, dir |-> dir, data |-> Hex(dir[block_id])]

\* DELETE /delete/{block_id}; io_error: os.remove raises IOError
delete_block(dir, used, io_error, block_id) ==
    IF block_id \notin DOMAIN dir
    THEN [code |-> 404, dir |-> dir, used |-> used, data |-> <<>>]
    ELSE IF io_error
    THEN [code |-> 500, dir |-> dir, used |-> used, data |-> <<>>]
    ELSE [code |-> 200, dir |-> RemoveBlock(dir, block_id),
          used |-> used - Len(dir[block_id]), data |-> <<>>]

\* get_directory_size: the bytes of the block files in S
RECURSIVE SizeOf(_, _)
SizeOf(dir, S) ==
    IF S = {} THEN 0
    ELSE LET b == CHOOSE x \in S : TRUE
         IN Len(dir[b]) + SizeOf(dir, S \ {b})

get_directory_size(dir) == SizeOf(dir, DOMAIN dir)

----------------------------------------------------------------------------
(* RAID5Manager: parity, striping, placement *)

\* faulty variant: the bytes are added instead of XORed
XorBlocks_sum(p, q) == [i \in 1..Min(Len(p), Len(q)) |-> (p[i] + q[i]) % 256]

\* bytes(a ^ b for a, b in zip(parity, block))
XorBlocks(p, q) == [i \in 1..Min(Len(p), Len(q)) |-> XorByte(p[i], q[i])]

\* faulty variant: no padding, zip stops at the shorter of the two
RECURSIVE ParityFold_no_pad(_, _)
ParityFold_no_pad(parity, rest) ==
    IF Len(rest) = 0 THEN parity
    ELSE ParityFold_no_pad(XorBlocks(parity, rest[1]), Tail(rest))

RECURSIVE ParityFold(_, _)
ParityFold(parity, rest) ==
    IF Len(rest) = 0 THEN parity
    ELSE LET block == rest[1]
             n == Max(Len(block), Len(parity))
         IN ParityFold(XorBlocks(parity \o Zeros(n - Len(parity)),
                                 block \o Zeros(n - Len(block))),
                       Tail(rest))

\* faulty variant: the first block is returned as the parity
_calculate_parity_first(data_blocks) ==
    IF Len(data_blocks) = 0 THEN <<>> ELSE data_blocks[1]

_calculate_parity(data_blocks) ==
    IF Len(data_blocks) = 0 THEN <<>>
    ELSE ParityFold(data_blocks[1], Tail(data_blocks))

\* ceil(a / b)
CeilDiv(a, b) == (a + b - 1) \div b

\* [data[i:i+step] for i in range(0, len(data), step)]
Chunks(data, step) ==
    [k \in 1..CeilDiv(Len(data), step) |->
        SubSeq(data, (k - 1) * step + 1, Min(k * step, Len(data)))]

\* the data blocks of one stripe payload, each padded to block_size
PaddedBlocks(data) ==
    LET raw == Chunks(data, block_size)
    IN [k \in 1..Len(raw) |-> raw[k] \o Zeros(block_size - Len(raw[k]))]

_distribute_blocks(data) ==
    LET blocks == PaddedBlocks(data)
    IN [data_blocks |-> blocks, parity_block |-> _calculate_parity(blocks)]

\* faulty variant: the parity rotates backwards
_get_parity_disk_reversed(stripe_number) ==
    (num_disks - 1) - (stripe_number % num_disks)

_get_parity_disk(stripe_number) == stripe_number % num_disks

\* faulty variant: the data disks are taken in descending order
DataDiskIndices_descending(parity_disk_index) ==
    [j \in 1..(num_disks - 1) |->
        IF (num_disks - j) > parity_disk_index THEN num_disks - j ELSE num_disks - j - 1]

\* faulty variant: the parity disk is not skipped when placing data blocks
DataDiskIndices_no_skip(parity_disk_index) == [j \in 1..(num_disks - 1) |-> j - 1]

\* [j for j in range(num_disks) if j != parity_disk_index], ascending
DataDiskIndices(parity_disk_index) ==
    [j \in 1..(num_disks - 1) |->
        IF j - 1 < parity_disk_index THEN j - 1 ELSE j]

_get_block_id(file_id, block_index) ==
    file_id \o <<Underscore>> \o BlockWord \o <<Underscore>> \o block_index

DataIndex(i, j) == IntToStr(i) \o <<Underscore>> \o IntToStr(j)

ParityIndex(i) == ParityWord \o <<Underscore>> \o IntToStr(i)

----------------------------------------------------------------------------
(* RAID5Manager: block I/O.  An io record carries what a request handler   *)
(* changes while it runs: the liveness flags (status), the nodes'          *)
(* directories (dirs) and used space (used), whether every store call so   *)
(* far was accepted by its node (ok), and the nodes that answered 507      *)
(* (full), and how many requests each node was sent (asked).  A node       *)
(* outside node_up gives a transport error.                                *)

Online == "online"

Offline == "offline"

\* no request has been sent to any node
NoneAsked == [d \in DiskIds |-> 0]

\* the io record at the start of a request
RequestIo ==
    [status |-> disk_nodes, dirs |-> node_blocks, used |-> node_used, ok |-> TRUE,
     full |-> {}, asked |-> NoneAsked]

_store_block_to_disk(io, disk_id, block_id, data) ==
    IF io.status[disk_id] # Online
    THEN [io EXCEPT !.ok = FALSE]
    ELSE IF disk_id \notin node_up
    THEN [io EXCEPT !.status[disk_id] = Offline, !.ok = FALSE,
                    !.asked[disk_id] = @ + 1]
    ELSE LET response == store_block(io.dirs[disk_id], io.used[disk_id],
                                     node_capacity[disk_id],
                                     disk_id \in node_read_only, block_id, Hex(data))
         IN IF response.code >= 400
            THEN [io EXCEPT !.status[disk_id] = Offline, !.ok = FALSE,
                            !.full = IF response.code = 507 THEN @ \cup {disk_id} ELSE @,
                            !.asked[disk_id] = @ + 1]
            ELSE [io EXCEPT !.dirs[disk_id] = response.dir,
                            !.used[disk_id] = response.used,
                            !.asked[disk_id] = @ + 1]

\* faulty variant: a node flagged offline is asked all the same, and is
\* flagged online again when it answers
_retrieve_block_from_disk_retry(io, block_id, disk_id) ==
    IF disk_id \notin node_up
    THEN [io |-> [io EXCEPT !.status[disk_id] = Offline, !.asked[disk_id] = @ + 1],
          found |-> FALSE, data |-> <<>>]
    ELSE LET response == retrieve_block(io.dirs[disk_id], disk_id \in node_io_error,
                                        block_id)
         IN IF response.code = 200
            THEN [io |-> [io EXCEPT !.status[disk_id] = Online, !.asked[disk_id] = @ + 1],
                  found |-> TRUE, data |-> Unhex(response.data)]
            ELSE [io |-> [io EXCEPT !.asked[disk_id] = @ + 1],
                  found |-> FALSE, data |-> <<>>]

\* returns the io record and the block (data), found telling None apart
_retrieve_block_from_disk(io, block_id, disk_id) ==
    IF io.status[disk_id] # Online
    THEN [io |-> [io EXCEPT !.status[disk_id] = Offline], found |-> FALSE, data |-> <<>>]
    ELSE IF disk_id \notin node_up
    THEN [io |-> [io EXCEPT !.status[disk_id] = Offline, !.asked[disk_id] = @ + 1],
          found |-> FALSE, data |-> <<>>]
    ELSE LET response == retrieve_block(io.dirs[disk_id], disk_id \in node_io_error,
                                        block_id)
         IN IF response.code = 200
            THEN [io |-> [io EXCEPT !.asked[disk_id] = @ + 1],
                  found |-> TRUE, data |-> Unhex(response.data)]
            ELSE [io |-> [io EXCEPT !.asked[disk_id] = @ + 1],
                  found |-> FALSE, data |-> <<>>]

_delete_block_from_disk(io, block_id, disk_id) ==
    IF io.status[disk_id] # Online
    THEN io
    ELSE IF disk_id \notin node_up
    THEN [io EXCEPT !.status[disk_id] = Offline, !.asked[disk_id] = @ + 1]
    ELSE LET response == delete_block(io.dirs[disk_id], io.used[disk_id],
                                      disk_id \in node_read_only, block_id)
         IN IF response.code \notin {200, 404}
            THEN [io EXCEPT !.status[disk_id] = Offline, !.asked[disk_id] = @ + 1]
            ELSE [io EXCEPT !.dirs[disk_id] = response.dir,
                            !.used[disk_id] = response.used,
                            !.asked[disk_id] = @ + 1]

----------------------------------------------------------------------------
(* RAID5Manager.store_file *)

\* the inner loop of store_file: for j, block_data in enumerate(data_blocks)
RECURSIVE StoreDataBlocks(_, _, _, _, _, _)
StoreDataBlocks(st, file_id, i, data_blocks, data_disk_indices, j) ==
    IF j >= Len(data_blocks) THEN st
    ELSE LET disk_index == data_disk_indices[j + 1]
             disk_id == disk_index + 1
             block_id == _get_block_id(file_id, DataIndex(i, j))
             stored == [st EXCEPT
                           !.io = _store_block_to_disk(@, disk_id, block_id,
                                                       data_blocks[j + 1]),
                           !.block_locations = Put(@, block_id, disk_id)]
         IN CHOOSE r \in {StoreDataBlocks(next, file_id, i, data_blocks,
                                           data_disk_indices, j + 1) :
                              next \in {stored}} : TRUE

\* faulty variant: the stripe counter is read and not advanced
StoreStripe_no_advance(st, file_id, i, stripe_data) ==
    LET current_stripe_num == st.next_stripe_number
        dist == _distribute_blocks(stripe_data)
        parity_disk_index == _get_parity_disk(current_stripe_num)
        data_disk_indices == DataDiskIndices(parity_disk_index)
        st1 == StoreDataBlocks(st, file_id, i, dist.data_blocks, data_disk_indices, 0)
        parity_disk_id == parity_disk_index + 1
        parity_block_id == _get_block_id(file_id, ParityIndex(i))
    IN [st1 EXCEPT
           !.io = _store_block_to_disk(st1.io, parity_disk_id, parity_block_id,
                                       dist.parity_block),
           !.parity_locations = Put(st1.parity_locations, parity_block_id, parity_disk_id)]

\* one pass of the outer loop of store_file, for stripe i
StoreStripe(st, file_id, i, stripe_data) ==
    LET current_stripe_num == st.next_stripe_number
        dist == _distribute_blocks(stripe_data)
        parity_disk_index == _get_parity_disk(current_stripe_num)
        data_disk_indices == DataDiskIndices(parity_disk_index)
        st1 == StoreDataBlocks([st EXCEPT !.next_stripe_number = current_stripe_num + 1],
                               file_id, i, dist.data_blocks, data_disk_indices, 0)
        parity_disk_id == parity_disk_index + 1
        parity_block_id == _get_block_id(file_id, ParityIndex(i))
    IN [st1 EXCEPT
           !.io = _store_block_to_disk(st1.io, parity_disk_id, parity_block_id,
                                       dist.parity_block),
           !.parity_locations = Put(st1.parity_locations, parity_block_id, parity_disk_id)]

\* the outer loop of store_file, for the stripes lo..hi-1 in order
RECURSIVE StoreStripes(_, _, _, _, _)
StoreStripes(st, file_id, stripes, lo, hi) ==
    IF lo >= hi THEN st
    ELSE IF lo + 1 = hi THEN StoreStripe(st, file_id, lo, stripes[lo + 1])
    ELSE LET mid == (lo + hi) \div 2
         IN CHOOSE r \in {StoreStripes(next, file_id, stripes, mid, hi) :
                              next \in {StoreStripes(st, file_id, stripes, lo, mid)}} : TRUE

FileMetadata(file_id, filename, size, blocks, parity_blocks) ==
    [file_id |-> file_id, filename |-> filename, size |-> size,
     blocks |-> blocks, parity_blocks |-> parity_blocks]

NoFiles == [f \in {} |-> <<>>]

\* faulty variant: the stripe counter is left out of the document
_save_metadata_no_counter(files, counter) ==
    [exists |-> TRUE, complete |-> TRUE, files |-> files, next_stripe_number |-> 0]

\* json.dump of {'files': ..., 'next_stripe_number': ...} over the old file,
\* when nothing goes wrong
_save_metadata(files, counter) ==
    [exists |-> TRUE, complete |-> TRUE, files |-> files, next_stripe_number |-> counter]

\* metadata.json after open(..., 'w') emptied it and before json.dump and
\* close have written all of the new text: a strict prefix of that text,
\* which no JSON parser accepts
Truncated ==
    [exists |-> TRUE, complete |-> FALSE, files |-> NoFiles, next_stripe_number |-> 0]

\* what goes wrong in one call of _save_metadata:
\*   "none"         nothing;
\*   "open_error"   open() raises, the old file stays as it is;
\*   "write_error"  json.dump or close raises after open() emptied the file;
\*   "crash"        the process dies after open() emptied the file;
\*   "crash_before_open"  the process dies on entry, the old file stays.
\* The two errors are caught and printed by _save_metadata itself.
SaveFaults == {"none", "open_error", "write_error", "crash", "crash_before_open"}

\* the faults that end the coordinator process
Crashes == {"crash", "crash_before_open"}

\* metadata.json after one call of _save_metadata
Saved(files, counter, fault) ==
    IF fault = "none" THEN _save_metadata(files, counter)
    ELSE IF fault \in {"open_error", "crash_before_open"} THEN metadata_doc
    ELSE Truncated

\* the state store_file leaves behind, for the k-th uuid
store_file(k, filename, content, fault) ==
    LET file_id == FileIdStr(k)
        stripes == Chunks(content, StripePayload)
        st == StoreStripes([io |-> RequestIo,
                            next_stripe_number |-> next_stripe_number,
                            block_locations |-> <<>>,
                            parity_locations |-> <<>>],
                           file_id, stripes, 0, Len(stripes))
        meta == FileMetadata(file_id, filename, Len(content),
                             st.block_locations, st.parity_locations)
        files == [f \in (DOMAIN file_metadata) \cup {k} |->
                     IF f = k THEN meta ELSE file_metadata[f]]
    IN [io |-> st.io,
        file_metadata |-> files,
        next_stripe_number |-> st.next_stripe_number,
        metadata_doc |-> Saved(files, st.next_stripe_number, fault),
        file_id |-> k]

----------------------------------------------------------------------------
(* RAID5Manager.retrieve_file and _reconstruct_data *)

\* step 1 of retrieve_file: for block_id, disk_id in metadata.blocks.items()
RetrieveOne(acc, block_id, disk_id) ==
    LET r == _retrieve_block_from_disk(acc.io, block_id, disk_id)
    IN IF r.found
       THEN [acc EXCEPT !.io = r.io, !.retrieved_blocks = Put(@, block_id, r.data)]
       ELSE [acc EXCEPT !.io = r.io, !.failed_blocks = Put(@, block_id, disk_id)]

\* the entries lo..hi of metadata.blocks, in order
RECURSIVE RetrieveAll(_, _, _, _)
RetrieveAll(acc, blocks, lo, hi) ==
    IF lo > hi THEN acc
    ELSE IF lo = hi THEN RetrieveOne(acc, blocks[lo][1], blocks[lo][2])
    ELSE LET mid == (lo + hi) \div 2
         IN CHOOSE r \in {RetrieveAll(next, blocks, mid + 1, hi) :
                              next \in {RetrieveAll(acc, blocks, lo, mid)}} : TRUE

\* the stripe index parsed back from a block id
StripeIndexOf(block_id) ==
    LET parts == Split(block_id)
    IN IF parts[Len(parts) - 1] = ParityWord
       THEN StrToInt(parts[Len(parts)])
       ELSE StrToInt(parts[Len(parts) - 1])

\* stripes.get(stripe_index, {}): the blocks of one stripe, in dict order
StripeOf(all_stripe_blocks, stripe_index) ==
    SelectSeq(all_stripe_blocks, LAMBDA e : StripeIndexOf(e[1]) = stripe_index)

\* for sibling_block_id, sibling_disk_id in stripe.items()
RECURSIVE GatherSiblings(_, _, _, _, _)
GatherSiblings(acc, stripe, failed_block_id, retrieved_blocks, n) ==
    IF n > Len(stripe) \/ acc.raised THEN acc
    ELSE LET sibling_block_id == stripe[n][1]
             sibling_disk_id == stripe[n][2]
         IN IF sibling_block_id = failed_block_id
            THEN GatherSiblings(acc, stripe, failed_block_id, retrieved_blocks, n + 1)
            ELSE LET r == _retrieve_block_from_disk(acc.io, sibling_block_id,
                                                    sibling_disk_id)
                     gathered ==
                         IF HasKey(retrieved_blocks, sibling_block_id)
                            /\ Len(Get(retrieved_blocks, sibling_block_id)) > 0
                         THEN [acc EXCEPT !.blocks_for_xor =
                                   Append(@, Get(retrieved_blocks, sibling_block_id))]
                         ELSE IF r.found
                         THEN [acc EXCEPT !.io = r.io,
                                          !.blocks_for_xor = Append(@, r.data)]
                         ELSE [acc EXCEPT !.io = r.io, !.raised = TRUE]
                 IN CHOOSE res \in {GatherSiblings(next, stripe, failed_block_id,
                                                   retrieved_blocks, n + 1) :
                                        next \in {gathered}} : TRUE

\* for failed_block_id in list(failed_blocks.keys())
RECURSIVE ReconstructEach(_, _, _, _, _)
ReconstructEach(acc, all_stripe_blocks, failed_ids, retrieved_blocks, n) ==
    IF n > Len(failed_ids) \/ acc.raised THEN acc
    ELSE LET failed_block_id == failed_ids[n]
             stripe == StripeOf(all_stripe_blocks, StripeIndexOf(failed_block_id))
             g == GatherSiblings([io |-> acc.io, raised |-> FALSE, blocks_for_xor |-> <<>>],
                                 stripe, failed_block_id, retrieved_blocks, 1)
             rebuilt == IF g.raised
                        THEN [acc EXCEPT !.io = g.io, !.raised = TRUE]
                        ELSE [acc EXCEPT !.io = g.io,
                                         !.reconstructed_blocks =
                                             Put(@, failed_block_id,
                                                 _calculate_parity(g.blocks_for_xor))]
         IN CHOOSE r \in {ReconstructEach(next, all_stripe_blocks, failed_ids,
                                           retrieved_blocks, n + 1) :
                              next \in {rebuilt}} : TRUE

\* faulty variant: each rebuilt block is stored on the node its record names
RECURSIVE WriteBack(_, _, _, _)
WriteBack(io, metadata, blocks, n) ==
    IF n > Len(blocks) THEN io
    ELSE WriteBack(_store_block_to_disk(io, Get(metadata.blocks, blocks[n][1]),
                                        blocks[n][1], blocks[n][2]),
                   metadata, blocks, n + 1)

_reconstruct_data_write_back(io, metadata, failed_blocks, retrieved_blocks) ==
    LET rec == ReconstructEach([io |-> io, raised |-> FALSE,
                                reconstructed_blocks |-> <<>>],
                               DictUnion(metadata.blocks, metadata.parity_blocks),
                               Keys(failed_blocks), retrieved_blocks, 1)
    IN IF rec.raised THEN rec
       ELSE [rec EXCEPT !.io = WriteBack(rec.io, metadata, rec.reconstructed_blocks, 1)]

_reconstruct_data(io, metadata, failed_blocks, retrieved_blocks) ==
    ReconstructEach([io |-> io, raised |-> FALSE, reconstructed_blocks |-> <<>>],
                    DictUnion(metadata.blocks, metadata.parity_blocks),
                    Keys(failed_blocks), retrieved_blocks, 1)

\* b''.join(retrieved_blocks[block_id] for block_id in sorted_block_ids)
RECURSIVE JoinRange(_, _, _, _)
JoinRange(retrieved_blocks, ids, lo, hi) ==
    IF lo > hi THEN <<>>
    ELSE IF lo = hi THEN Get(retrieved_blocks, ids[lo])
    ELSE LET mid == (lo + hi) \div 2
         IN JoinRange(retrieved_blocks, ids, lo, mid)
                \o JoinRange(retrieved_blocks, ids, mid + 1, hi)

Join(retrieved_blocks, ids) == JoinRange(retrieved_blocks, ids, 1, Len(ids))

\* retrieve_file returned None
NotFound == "not_found"

\* retrieve_file raised (the API answers 500)
Unrecoverable == "unrecoverable"

Reply(op, file_id, result, filename, content, stores_ok) ==
    [op |-> op, file_id |-> file_id, result |-> result, filename |-> filename,
     content |-> content, stores_ok |-> stores_ok]

\* what retrieve_file leaves behind (the liveness flags, the nodes'
\* directories and used space), and its reply
retrieve_file(k) ==
    IF k \notin DOMAIN file_metadata
    THEN [status |-> disk_nodes, dirs |-> node_blocks, used |-> node_used,
          reconstructed |-> FALSE, rebuilt |-> <<>>, asked |-> NoneAsked,
          reply |-> Reply("download", k, NotFound, <<>>, <<>>, TRUE)]
    ELSE
    LET metadata == file_metadata[k]
        got == RetrieveAll([io |-> RequestIo,
                            retrieved_blocks |-> <<>>, failed_blocks |-> <<>>],
                           metadata.blocks, 1, Len(metadata.blocks))
        rec == IF Len(got.failed_blocks) > 0
               THEN _reconstruct_data(got.io, metadata, got.failed_blocks,
                                      got.retrieved_blocks)
               ELSE [io |-> got.io, raised |-> FALSE, reconstructed_blocks |-> <<>>]
        retrieved_blocks == DictUnion(got.retrieved_blocks, rec.reconstructed_blocks)
        sorted_block_ids == Sorted(Keys(metadata.blocks))
        full_content == Join(retrieved_blocks, sorted_block_ids)
    IN IF rec.raised \/ Len(retrieved_blocks) < Len(metadata.blocks)
       THEN [status |-> rec.io.status, dirs |-> rec.io.dirs, used |-> rec.io.used,
             reconstructed |-> Len(got.failed_blocks) > 0,
             rebuilt |-> IF rec.raised THEN <<>> ELSE rec.reconstructed_blocks,
             asked |-> rec.io.asked,
             reply |-> Reply("download", k, Unrecoverable, <<>>, <<>>, TRUE)]
       ELSE [status |-> rec.io.status, dirs |-> rec.io.dirs, used |-> rec.io.used,
             reconstructed |-> Len(got.failed_blocks) > 0,
             rebuilt |-> rec.reconstructed_blocks, asked |-> rec.io.asked,
             reply |-> Reply("download", k, "ok", metadata.filename,
                             SubSeq(full_content, 1, Min(metadata.size, Len(full_content))),
                             TRUE)]

----------------------------------------------------------------------------
(* RAID5Manager.delete_file, list_files, __init__ *)

\* for block_id, disk_id in all_blocks.items(), the entries lo..hi in order
RECURSIVE DeleteAll(_, _, _, _)
DeleteAll(io, all_blocks, lo, hi) ==
    IF lo > hi THEN io
    ELSE IF lo = hi THEN _delete_block_from_disk(io, all_blocks[lo][1], all_blocks[lo][2])
    ELSE LET mid == (lo + hi) \div 2
         IN CHOOSE r \in {DeleteAll(next, all_blocks, mid + 1, hi) :
                              next \in {DeleteAll(io, all_blocks, lo, mid)}} : TRUE

\* faulty variant: the document is rewritten although nothing was deleted
delete_file_missing_resave(k) ==
    [io |-> RequestIo,
     file_metadata |-> file_metadata,
     metadata_doc |-> Saved(file_metadata, next_stripe_number, "none")]

\* the state delete_file leaves behind for a file id that is not in
\* file_metadata: it returns False before it touches anything
delete_file_missing(k) ==
    [io |-> RequestIo, file_metadata |-> file_metadata, metadata_doc |-> metadata_doc]

\* faulty variant: the document is not rewritten after a delete
delete_file_no_save(k, fault) ==
    LET metadata == file_metadata[k]
        all_blocks == DictUnion(metadata.blocks, metadata.parity_blocks)
        io == DeleteAll(RequestIo,
                        all_blocks, 1, Len(all_blocks))
        files == [f \in (DOMAIN file_metadata) \ {k} |-> file_metadata[f]]
    IN [io |-> io, file_metadata |-> files, metadata_doc |-> metadata_doc]

\* the state delete_file leaves behind for a file id that is in file_metadata
delete_file(k, fault) ==
    LET metadata == file_metadata[k]
        all_blocks == DictUnion(metadata.blocks, metadata.parity_blocks)
        io == DeleteAll(RequestIo,
                        all_blocks, 1, Len(all_blocks))
        files == [f \in (DOMAIN file_metadata) \ {k} |-> file_metadata[f]]
    IN [io |-> io,
        file_metadata |-> files,
        metadata_doc |-> Saved(files, next_stripe_number, fault)]

\* the file ids of list_files()
list_files == DOMAIN file_metadata

\* str.lower() on ASCII
Lower(str) == [i \in 1..Len(str) |-> IF str[i] \in 65..90 THEN str[i] + 32 ELSE str[i]]

\* sub in str
Contains(sub, str) ==
    \E i \in 0..(Len(str) - Len(sub)) : SubSeq(str, i + 1, i + Len(sub)) = sub

\* faulty variant: the comparison is case-sensitive
search_files_case_sensitive(query) ==
    {k \in DOMAIN file_metadata : Contains(query, file_metadata[k].filename)}

\* the file ids of search_files(query)
search_files(query) ==
    {k \in DOMAIN file_metadata : Contains(Lower(query), Lower(file_metadata[k].filename))}

_setup_disk_nodes == [d \in DiskIds |-> Online]

\* get_system_status(): computed from the liveness flags alone, no node is
\* asked (total_space and used_space are the constants of _setup_disk_nodes)
get_system_status ==
    [total_disks |-> num_disks,
     available_disks |-> Cardinality({d \in DiskIds : disk_nodes[d] = Online}),
     failed_disks |-> num_disks - Cardinality({d \in DiskIds : disk_nodes[d] = Online}),
     disk_status |-> disk_nodes]

\* faulty variant: the stripe counter is loaded and the files are not
_load_metadata_no_files(doc) ==
    IF doc.exists /\ doc.complete
    THEN [file_metadata |-> NoFiles, next_stripe_number |-> doc.next_stripe_number]
    ELSE [file_metadata |-> NoFiles, next_stripe_number |-> 0]

\* faulty variant: the files are loaded and the stripe counter is not
_load_metadata_counter_reset(doc) ==
    IF doc.exists /\ doc.complete
    THEN [file_metadata |-> doc.files, next_stripe_number |-> 0]
    ELSE [file_metadata |-> NoFiles, next_stripe_number |-> 0]

\* (file_metadata, next_stripe_number) after _load_metadata on a fresh manager:
\* no file, or a file json.load rejects (the exception is caught and
\* printed), leaves the empty map and the counter 0 of __init__
_load_metadata(doc) ==
    IF doc.exists /\ doc.complete
    THEN [file_metadata |-> doc.files, next_stripe_number |-> doc.next_stripe_number]
    ELSE [file_metadata |-> NoFiles, next_stripe_number |-> 0]

----------------------------------------------------------------------------
(* The API handlers of controller/main.py.  Each body runs inside          *)
(* try: ... except Exception as e: raise HTTPException(status_code=500),   *)
(* and HTTPException is an Exception: whatever the body raises, the reply  *)
(* has status 500.                                                         *)

\* the status of a reply whose handler body returned (code) or raised
ExceptException(raised, code) == IF raised THEN 500 ELSE code

\* POST /upload: the body raises HTTPException(400) when there is no filename
upload_file_status(filename) == ExceptException(Len(filename) = 0, 200)

\* GET /download/{file_id}: retrieve_file raises when the file cannot be
\* rebuilt; the body raises HTTPException(404) when it returns None
download_file_status(result) == ExceptException(result # "ok", 200)

\* DELETE /files/{file_id}: the body raises HTTPException(404) when
\* delete_file returns False
delete_file_status(success) == ExceptException(~success, 200)

----------------------------------------------------------------------------
(* Inputs *)

\* the byte string a, 2a, 3a, ... (mod 256) of length n
Pattern(n, a) == [i \in 1..n |-> (a * i) % 256]

FileNames == {<<65>>, <<97, 98>>}

ShortLengths == {0, 1, StripePayload + 1}

ShortInputs ==
    {[filename |-> IF n = 1 THEN <<97, 98>> ELSE <<65>>, content |-> Pattern(n, 3)] :
        n \in ShortLengths}

\* a request whose file part has no filename
NamelessInputs == {[filename |-> <<>>, content |-> Pattern(1, 3)]}

\* the query strings of GET /search: "", "a", "AB"
Queries == {<<>>, <<97>>, <<65, 66>>}

\* the bytes the codec is tried on
CodecBytes == {5, 255}

MaxCodecLen == 2

MaxCodecBlocks == 3

\* the byte strings of at most MaxCodecLen bytes
CodecStrings ==
    UNION {[1..n -> CodecBytes] : n \in 0..MaxCodecLen}

\* the lists of at most MaxCodecBlocks byte strings
CodecInputs ==
    UNION {[1..n -> CodecStrings] : n \in 0..MaxCodecBlocks}

\* contents around the stripe payload: one byte less, exactly one payload,
\* one byte more, exactly two payloads, and the empty file
SizedLengths ==
    {0, StripePayload - 1, StripePayload, StripePayload + 1, 2 * StripePayload}

SizedInputs == {[filename |-> <<65>>, content |-> Pattern(n, 3)] : n \in SizedLengths}

LongInputs ==
    {[filename |-> <<97, 98>>, content |-> Pattern(n * StripePayload + 1, 1)] :
        n \in {LongStripes - 2, LongStripes - 1}}

----------------------------------------------------------------------------
(* State machine *)

NoReply == Reply("none", 0, "ok", <<>>, <<>>, TRUE)

\* the state after the nodes and then the coordinator are started on empty
\* directories, every node configured with the same capacity
InitWith(capacity) ==
    /\ disk_nodes = _setup_disk_nodes
    /\ file_metadata = NoFiles
    /\ next_stripe_number = 0
    /\ metadata_doc = [exists |-> FALSE, complete |-> FALSE, files |-> NoFiles,
                       next_stripe_number |-> 0]
    /\ node_up = DiskIds
    /\ node_blocks = [d \in DiskIds |-> NoBlocks]
    /\ node_used = [d \in DiskIds |-> get_directory_size(NoBlocks)]
    /\ node_capacity = [d \in DiskIds |-> capacity]
    /\ node_io_error = {}
    /\ node_read_only = {}
    /\ coordinator_up = TRUE
    /\ in_flight = <<>>
    /\ uuid_count = 0
    /\ fail_count = 0
    /\ last = NoReply
    /\ status_code = 0
    /\ reconstruction_ran = FALSE
    /\ last_full = {}
    /\ last_asked = NoneAsked
    /\ answer = {}
    /\ reconstructed_data = <<>>
    /\ last_download = NoReply
    /\ uploads = <<>>
    /\ stripe_log = <<>>
    /\ stripe_numbers = <<>>
    /\ overlapped = {}
    /\ deleted = {}

\* the nodes that clients other than the coordinator send requests to
MaxDirect == 1

DirectNodes == 1..MaxDirect

\* the block ids "x" and "y" of those requests
DirectBlockIds == {<<120>>, <<121>>}

\* the blocks of those requests: one byte, and block_size bytes
DirectData == {Pattern(1, 7), Pattern(block_size, 7)}

\* the codec has not been called
NotCalled == [called |-> FALSE, parity |-> <<>>]

Init ==
    /\ InitWith(Capacity)
    /\ codec_input = <<>>
    /\ codec_output = NotCalled

InitSmall ==
    /\ InitWith(SmallCapacity)
    /\ codec_input = <<>>
    /\ codec_output = NotCalled

\* a list of byte strings is about to be given to the codec
InitParity ==
    /\ InitWith(Capacity)
    /\ codec_input \in CodecInputs
    /\ codec_output = NotCalled

\* no request has been answered since the latest change of the environment
Quiet ==
    /\ last' = NoReply
    /\ status_code' = 0
    /\ reconstruction_ran' = FALSE
    /\ last_full' = {}
    /\ last_asked' = NoneAsked
    /\ answer' = {}
    /\ reconstructed_data' = <<>>
    /\ last_download' = NoReply

\* upload_file once the body of the request is read (line 45): the filename
\* check, store_file and the reply.  shared: the request was in flight
\* together with another one.
upload_file(inp, fault, shared) ==
    IF Len(inp.filename) = 0
    THEN /\ last' = Reply("upload", 0, "rejected", inp.filename, <<>>, TRUE)
         /\ status_code' = upload_file_status(inp.filename)
         /\ reconstruction_ran' = FALSE
         /\ last_full' = {}
         /\ last_asked' = NoneAsked
         /\ answer' = {}
         /\ reconstructed_data' = <<>>
         /\ last_download' = NoReply
         /\ UNCHANGED <<codecVars, node_read_only, coordVars, nodeVars, histVars, coordinator_up>>
    ELSE \E r \in {store_file(uuid_count + 1, inp.filename, inp.content, fault)} :
         \E parity_locations \in {r.file_metadata[r.file_id].parity_blocks} :
            /\ disk_nodes' = r.io.status
            /\ node_blocks' = r.io.dirs
            /\ node_used' = r.io.used
            /\ file_metadata' = r.file_metadata
            /\ next_stripe_number' = r.next_stripe_number
            /\ metadata_doc' = r.metadata_doc
            /\ coordinator_up' = (fault \notin Crashes)
            /\ uuid_count' = uuid_count + 1
            /\ last' = IF fault \in Crashes THEN NoReply
                       ELSE Reply("upload", r.file_id, "ok", inp.filename, <<>>, r.io.ok)
            /\ status_code' = IF fault \in Crashes THEN 0
                              ELSE upload_file_status(inp.filename)
            /\ reconstruction_ran' = FALSE
            /\ last_full' = r.io.full
            /\ last_asked' = r.io.asked
            /\ answer' = {}
            /\ reconstructed_data' = <<>>
            /\ last_download' = NoReply
            /\ uploads' = Append(uploads, [filename |-> inp.filename,
                                           content |-> inp.content,
                                           stores_ok |-> r.io.ok])
            /\ stripe_log' = stripe_log \o [n \in 1..Len(parity_locations) |->
                                                parity_locations[n][2] - 1]
            /\ stripe_numbers' =
                   Append(stripe_numbers,
                          [n \in 1..(r.next_stripe_number - next_stripe_number) |->
                              next_stripe_number + n - 1])
            /\ overlapped' = IF shared THEN overlapped \cup {r.file_id} ELSE overlapped
            /\ UNCHANGED <<codecVars, node_read_only, node_up, node_capacity, node_io_error, fail_count, deleted>>

\* POST /upload, the whole handler in one step
UploadFrom(inputs, faults) ==
    /\ coordinator_up
    /\ uuid_count + Len(in_flight) < MaxUploads
    /\ \E inp \in inputs, fault \in faults : upload_file(inp, fault, FALSE)
    /\ UNCHANGED in_flight

Upload == UploadFrom(ShortInputs, {"none"})

UploadLong == UploadFrom(LongInputs, {"none"})

\* POST /upload with contents around the stripe payload
UploadSized == UploadFrom(SizedInputs, {"none"})

\* POST /upload with and without a filename
UploadApi == UploadFrom(ShortInputs \cup NamelessInputs, {"none"})

\* POST /upload while the metadata file may fail to be written
UploadFaulty == UploadFrom(ShortInputs, SaveFaults)

\* POST /upload up to the end of  content = await file.read()  (line 45),
\* the only point where the handler lets another request run
UploadRead ==
    /\ coordinator_up
    /\ uuid_count + Len(in_flight) < MaxUploads
    /\ \E inp \in ShortInputs :
         in_flight' =
             Append([n \in 1..Len(in_flight) |-> [in_flight[n] EXCEPT !.shared = TRUE]],
                    [filename |-> inp.filename, content |-> inp.content,
                     shared |-> Len(in_flight) > 0])
    /\ UNCHANGED <<codecVars, node_read_only, coordVars, nodeVars, replyVars, histVars, coordinator_up>>

\* POST /upload from line 48 on, for any of the requests in flight
UploadStore ==
    /\ coordinator_up
    /\ \E i \in 1..Len(in_flight) :
         /\ upload_file(in_flight[i], "none", in_flight[i].shared)
         /\ in_flight' = SubSeq(in_flight, 1, i - 1) \o SubSeq(in_flight, i + 1, Len(in_flight))

\* GET /download/{file_id}.  The handler also writes the bytes to a file
\* temp_<file_id> in its working directory, which nothing reads afterwards.
Download ==
    /\ coordinator_up
    /\ \E k \in 1..MaxUploads :
         \E r \in {retrieve_file(k)} :
            /\ disk_nodes' = r.status
            /\ node_blocks' = r.dirs
            /\ node_used' = r.used
            /\ last' = r.reply
            /\ status_code' = download_file_status(r.reply.result)
            /\ reconstruction_ran' = r.reconstructed
            /\ last_full' = {}
            /\ last_asked' = r.asked
            /\ answer' = {}
            /\ reconstructed_data' = r.rebuilt
            /\ last_download' = NoReply
    /\ UNCHANGED <<codecVars, node_read_only, file_metadata, next_stripe_number, metadata_doc, node_up,
                   node_capacity, node_io_error, histVars, coordinator_up, in_flight>>

\* DELETE /files/{file_id}
DeleteWith(faults) ==
    /\ coordinator_up
    /\ \E k \in 1..MaxUploads :
        IF k \notin DOMAIN file_metadata
        THEN \E r \in {delete_file_missing(k)} :
             /\ disk_nodes' = r.io.status
             /\ node_blocks' = r.io.dirs
             /\ node_used' = r.io.used
             /\ file_metadata' = r.file_metadata
             /\ metadata_doc' = r.metadata_doc
             /\ last' = Reply("delete", k, NotFound, <<>>, <<>>, TRUE)
             /\ status_code' = delete_file_status(FALSE)
             /\ reconstruction_ran' = FALSE
             /\ last_full' = {}
             /\ last_asked' = r.io.asked
             /\ answer' = {}
             /\ reconstructed_data' = <<>>
             /\ last_download' = NoReply
             /\ UNCHANGED <<codecVars, node_read_only, next_stripe_number, node_up, node_capacity, node_io_error,
                            histVars, coordinator_up>>
        ELSE \E fault \in faults :
             \E r \in {delete_file(k, fault)} :
                /\ disk_nodes' = r.io.status
                /\ node_blocks' = r.io.dirs
                /\ node_used' = r.io.used
                /\ file_metadata' = r.file_metadata
                /\ metadata_doc' = r.metadata_doc
                /\ coordinator_up' = (fault \notin Crashes)
                /\ deleted' = IF fault \in Crashes THEN deleted ELSE deleted \cup {k}
                /\ last' = IF fault \in Crashes THEN NoReply
                           ELSE Reply("delete", k, "ok", <<>>, <<>>, TRUE)
                /\ status_code' = IF fault \in Crashes THEN 0 ELSE delete_file_status(TRUE)
                /\ reconstruction_ran' = FALSE
                /\ last_full' = {}
                /\ last_asked' = r.io.asked
                /\ answer' = {}
                /\ reconstructed_data' = <<>>
                /\ last_download' = IF last.op = "download" THEN last ELSE NoReply
                /\ UNCHANGED <<codecVars, node_read_only, next_stripe_number, node_up, node_capacity, node_io_error,
                               uuid_count, fail_count, uploads, stripe_log, stripe_numbers,
                               overlapped>>
    /\ UNCHANGED in_flight

Delete == DeleteWith({"none"})

\* DELETE /files/{file_id} while the metadata file may fail to be written
DeleteFaulty == DeleteWith(SaveFaults)

\* GET /files
ListFiles ==
    /\ coordinator_up
    /\ last' = Reply("list", 0, "ok", <<>>, <<>>, TRUE)
    /\ status_code' = ExceptException(FALSE, 200)
    /\ reconstruction_ran' = FALSE
    /\ last_full' = {}
    /\ last_asked' = NoneAsked
    /\ answer' = list_files
    /\ reconstructed_data' = <<>>
    /\ last_download' = NoReply
    /\ UNCHANGED <<codecVars, node_read_only, coordVars, nodeVars, histVars, coordinator_up, in_flight>>

\* GET /search?query=...; the reply carries the query in its filename field
Search ==
    /\ coordinator_up
    /\ \E query \in Queries :
         /\ last' = Reply("search", 0, "ok", query, <<>>, TRUE)
         /\ answer' = search_files(query)
         /\ reconstructed_data' = <<>>
         /\ last_download' = NoReply
    /\ status_code' = ExceptException(FALSE, 200)
    /\ reconstruction_ran' = FALSE
    /\ last_full' = {}
    /\ last_asked' = NoneAsked
    /\ UNCHANGED <<codecVars, node_read_only, coordVars, nodeVars, histVars, coordinator_up, in_flight>>

\* GET /status; the answer names the disk ids reported online
Status ==
    /\ coordinator_up
    /\ last' = Reply("status", get_system_status.available_disks, "ok", <<>>, <<>>, TRUE)
    /\ answer' = {d \in DiskIds : get_system_status.disk_status[d] = Online}
    /\ reconstructed_data' = <<>>
    /\ last_download' = NoReply
    /\ status_code' = ExceptException(FALSE, 200)
    /\ reconstruction_ran' = FALSE
    /\ last_full' = {}
    /\ last_asked' = NoneAsked
    /\ UNCHANGED <<codecVars, node_read_only, coordVars, nodeVars, histVars, coordinator_up, in_flight>>

\* RAID5Manager() at module import: what __init__ leaves in memory
RAID5Manager ==
    LET loaded == _load_metadata(metadata_doc)
    IN [disk_nodes |-> _setup_disk_nodes,
        file_metadata |-> loaded.file_metadata,
        next_stripe_number |-> loaded.next_stripe_number]

\* the coordinator process stops between two requests and is started again
Restart ==
    /\ coordinator_up
    /\ \E manager \in {RAID5Manager} :
         /\ disk_nodes' = manager.disk_nodes
         /\ file_metadata' = manager.file_metadata
         /\ next_stripe_number' = manager.next_stripe_number
    /\ last' = Reply("restart", 0, "ok", <<>>, <<>>, TRUE)
    /\ status_code' = 0
    /\ reconstruction_ran' = FALSE
    /\ last_full' = {}
    /\ last_asked' = NoneAsked
    /\ answer' = {}
    /\ reconstructed_data' = <<>>
    /\ last_download' = NoReply
    /\ UNCHANGED <<codecVars, node_read_only, metadata_doc, nodeVars, histVars, coordinator_up, in_flight>>

\* the coordinator process is started after it died
Start ==
    /\ ~coordinator_up
    /\ coordinator_up' = TRUE
    /\ \E manager \in {RAID5Manager} :
         /\ disk_nodes' = manager.disk_nodes
         /\ file_metadata' = manager.file_metadata
         /\ next_stripe_number' = manager.next_stripe_number
    /\ last' = Reply("start", 0, "ok", <<>>, <<>>, TRUE)
    /\ status_code' = 0
    /\ reconstruction_ran' = FALSE
    /\ last_full' = {}
    /\ last_asked' = NoneAsked
    /\ answer' = {}
    /\ reconstructed_data' = <<>>
    /\ last_download' = NoReply
    /\ UNCHANGED <<codecVars, node_read_only, metadata_doc, nodeVars, histVars, in_flight>>

\* a node process stops answering; its storage directory stays on disk
NodeFail ==
    /\ fail_count < MaxFailures
    /\ \E d \in node_up :
        /\ node_up' = node_up \ {d}
        /\ fail_count' = fail_count + 1
        /\ Quiet
        /\ UNCHANGED <<codecVars, node_read_only, coordVars, node_blocks, node_used, node_capacity, node_io_error,
                       uuid_count, uploads, stripe_log, stripe_numbers, overlapped,
                       deleted, coordinator_up, in_flight>>

\* a node process answers again; startup_event measures its directory
NodeRecover ==
    \E d \in DiskIds \ node_up :
        /\ node_up' = node_up \cup {d}
        /\ node_used' = [node_used EXCEPT ![d] = get_directory_size(node_blocks[d])]
        /\ Quiet
        /\ UNCHANGED <<codecVars, node_read_only, coordVars, node_blocks, node_capacity, node_io_error, histVars,
                       coordinator_up, in_flight>>

\* the block files of a node become unreadable: open(block_path, "rb") raises
NodeIoError ==
    /\ fail_count < MaxFailures
    /\ \E d \in DiskIds \ node_io_error :
        /\ node_io_error' = node_io_error \cup {d}
        /\ fail_count' = fail_count + 1
        /\ Quiet
        /\ UNCHANGED <<codecVars, node_read_only, coordVars, node_up, node_blocks, node_used, node_capacity,
                       uuid_count, uploads, stripe_log, stripe_numbers, overlapped,
                       deleted, coordinator_up, in_flight>>

\* the storage of a node turns read-only: open(block_path, "wb") and
\* os.remove raise, the block files can still be read
NodeReadOnly ==
    /\ fail_count < MaxFailures
    /\ \E d \in DiskIds \ node_read_only :
        /\ node_read_only' = node_read_only \cup {d}
        /\ fail_count' = fail_count + 1
        /\ Quiet
        /\ UNCHANGED <<codecVars, coordVars, node_up, node_blocks, node_used, node_capacity,
                       node_io_error, uuid_count, uploads, stripe_log, stripe_numbers,
                       overlapped, deleted, coordinator_up, in_flight>>

\* what a node request leaves in the reply variables
NodeReply(op, d, block_id, data, code) ==
    /\ last' = Reply(op, d, IF code < 400 THEN "ok" ELSE "error", block_id, data, TRUE)
    /\ status_code' = code
    /\ reconstruction_ran' = FALSE
    /\ last_full' = {}
    /\ last_asked' = NoneAsked
    /\ answer' = {}
    /\ reconstructed_data' = <<>>
    /\ last_download' = NoReply

\* POST /store sent to a node by any client
StoreBlock ==
    \E d \in DirectNodes \cap node_up :
    \E block_id \in DirectBlockIds :
    \E data \in DirectData :
    \E response \in {store_block(node_blocks[d], node_used[d], node_capacity[d],
                                 d \in node_read_only, block_id, Hex(data))} :
        /\ node_blocks' = [node_blocks EXCEPT ![d] = response.dir]
        /\ node_used' = [node_used EXCEPT ![d] = response.used]
        /\ NodeReply("store", d, block_id, data, response.code)
        /\ UNCHANGED <<codecVars, node_read_only, coordVars, node_up, node_capacity,
                       node_io_error, histVars, coordinator_up, in_flight>>

\* DELETE /delete/{block_id} sent to a node by any client
DeleteBlock ==
    \E d \in DirectNodes \cap node_up :
    \E block_id \in DirectBlockIds :
    \E response \in {delete_block(node_blocks[d], node_used[d], d \in node_read_only,
                                  block_id)} :
        /\ node_blocks' = [node_blocks EXCEPT ![d] = response.dir]
        /\ node_used' = [node_used EXCEPT ![d] = response.used]
        /\ NodeReply("remove", d, block_id, <<>>, response.code)
        /\ UNCHANGED <<codecVars, node_read_only, coordVars, node_up, node_capacity,
                       node_io_error, histVars, coordinator_up, in_flight>>

\* _calculate_parity called on a list of byte strings
CalculateParity ==
    /\ ~codec_output.called
    /\ codec_output' = [called |-> TRUE, parity |-> _calculate_parity(codec_input)]
    /\ UNCHANGED <<codec_input, coordVars, nodeVars, replyVars, histVars, coordinator_up, in_flight>>

Next == Upload \/ Download \/ Delete \/ Restart \/ NodeFail \/ NodeRecover

Spec == Init /\ [][Next]_vars

NextLong == UploadLong \/ Upload \/ Download \/ Delete \/ Restart

SpecLong == Init /\ [][NextLong]_vars

\* the API with valid and invalid requests, every node up
NextApi == UploadApi \/ Download \/ Delete \/ Restart

SpecApi == Init /\ [][NextApi]_vars

\* nodes that have room for one block each
NextFull == Upload \/ Download \/ Delete \/ Restart

SpecFull == InitSmall /\ [][NextFull]_vars

\* nodes that stop answering or answer 500 to a read
NextFault == Upload \/ Download \/ NodeFail \/ NodeIoError

SpecFault == Init /\ [][NextFault]_vars

\* the metadata file fails to be written, or the coordinator dies writing it
NextCrash == UploadFaulty \/ DeleteFaulty \/ Download \/ Restart \/ Start

SpecCrash == Init /\ [][NextCrash]_vars

\* reads between the writes, nodes that stop answering
NextRead ==
    Upload \/ Download \/ Delete \/ Restart \/ ListFiles \/ Search \/ Status \/ NodeFail

SpecRead == Init /\ [][NextRead]_vars

\* deletes next to nodes that stop answering and nodes whose storage turns
\* read-only
NextDelete == Upload \/ Download \/ Delete \/ NodeFail \/ NodeReadOnly

SpecDelete == Init /\ [][NextDelete]_vars

\* requests sent to nodes of small capacity, some with read-only storage
NextNode == StoreBlock \/ DeleteBlock \/ NodeReadOnly

SpecNode == InitSmall /\ [][NextNode]_vars

\* every request that reads or changes a liveness flag, nodes that stop
\* answering and answer again
NextFlags ==
    Upload \/ Download \/ Delete \/ Status \/ Restart \/ NodeFail \/ NodeRecover

SpecFlags == Init /\ [][NextFlags]_vars

\* uploads of sizes around the stripe payload, and every other request
NextCount ==
    UploadSized \/ Download \/ Delete \/ ListFiles \/ Search \/ Status \/ Restart

SpecCount == Init /\ [][NextCount]_vars

\* the parity codec on lists of byte strings of unequal lengths
NextParity == CalculateParity

SpecParity == InitParity /\ [][NextParity]_vars

\* upload requests in flight at the same time
NextConc == UploadRead \/ UploadStore \/ Download \/ Delete

SpecConc == Init /\ [][NextConc]_vars

----------------------------------------------------------------------------
(* Properties *)

Committed == DOMAIN file_metadata

DownNodes == DiskIds \ node_up

AllOnline == \A d \in DiskIds : disk_nodes[d] = Online

\* the <<block id, disk id>> entries of stripe i of a file, data blocks only
DataOfStripe(metadata, i) == StripeOf(metadata.blocks, i)

NumStripes(metadata) == Len(metadata.parity_blocks)

\* C1: a file stored while every node accepted every block, downloaded while
\* every node is up and flagged online, comes back with the bytes and the
\* filename given at upload, whatever its number of stripes.
RoundTrip ==
    (/\ last.op = "download"
     /\ last.file_id \in Committed
     /\ uploads[last.file_id].stores_ok
     /\ node_up = DiskIds
     /\ AllOnline)
        => /\ last.result = "ok"
           /\ last.content = uploads[last.file_id].content
           /\ last.filename = uploads[last.file_id].filename

\* C2: a download of a committed file while exactly one node is down returns
\* the uploaded bytes.
DegradedRead ==
    (/\ last.op = "download"
     /\ last.file_id \in Committed
     /\ Cardinality(DownNodes) = 1)
        => /\ last.result = "ok"
           /\ last.content = uploads[last.file_id].content

\* C3: an upload one of whose block writes failed commits no metadata record.
UploadAllOrNothing ==
    (last.op = "upload" /\ ~last.stores_ok) => last.file_id \notin Committed

\* C4: a download of a committed file with at least one stripe while two or
\* more nodes are down fails as unrecoverable.
TwoDownUnrecoverable ==
    (/\ last.op = "download"
     /\ last.file_id \in Committed
     /\ NumStripes(file_metadata[last.file_id]) >= 1
     /\ Cardinality(DownNodes) >= 2)
        => last.result = Unrecoverable /\ last.content = <<>>

\* C5: the s-th stripe written since the fresh system (s = 0, 1, ...) has its
\* parity recorded on node index s mod num_disks, the counter equals the
\* number of stripes written, and the persisted counter agrees with it, so
\* the rotation goes on across uploads and restarts.
ParityRotation ==
    /\ \A s \in 1..Len(stripe_log) : stripe_log[s] = (s - 1) % num_disks
    /\ next_stripe_number = Len(stripe_log)
    /\ IF metadata_doc.exists
       THEN metadata_doc.next_stripe_number = Len(stripe_log)
       ELSE Len(stripe_log) = 0

ParityRotationWitness ==
    /\ last.op = "upload"
    /\ Committed = {1, 2}
    /\ NumStripes(file_metadata[1]) = 1
    /\ NumStripes(file_metadata[2]) = 1
    /\ file_metadata[1].parity_blocks[1][2] = 1
    /\ file_metadata[2].parity_blocks[1][2] = 2

\* C6: every stripe of a committed file has exactly num_disks - 1 data blocks.
FullWidthStripes ==
    \A k \in Committed :
        \A i \in 0..(NumStripes(file_metadata[k]) - 1) :
            Len(DataOfStripe(file_metadata[k], i)) = num_disks - 1

\* C7: within one stripe of a committed file no two blocks (data or parity)
\* are recorded on the same node.
DistinctNodesPerStripe ==
    \A k \in Committed :
        LET all == DictUnion(file_metadata[k].blocks, file_metadata[k].parity_blocks)
        IN \A m, n \in 1..Len(all) :
               (m # n /\ StripeIndexOf(all[m][1]) = StripeIndexOf(all[n][1]))
                   => all[m][2] # all[n][2]

DistinctNodesWitness ==
    \E k \in Committed :
        /\ NumStripes(file_metadata[k]) = 2
        /\ Len(DataOfStripe(file_metadata[k], 0)) = num_disks - 1

Bit(x, b) == (x \div (2 ^ b)) % 2

RECURSIVE SumBits(_, _, _, _)
SumBits(entries, p, b, n) ==
    IF n > Len(entries) THEN 0
    ELSE Bit(node_blocks[entries[n][2]][entries[n][1]][p], b)
             + SumBits(entries, p, b, n + 1)

Held(entry) == entry[1] \in DOMAIN node_blocks[entry[2]]

\* the blocks of stripe i of a file are all on their recorded nodes
StripeHeld(metadata, i) ==
    /\ Held(metadata.parity_blocks[i + 1])
    /\ \A n \in 1..Len(DataOfStripe(metadata, i)) : Held(DataOfStripe(metadata, i)[n])

\* C8: for every stripe of a committed file whose blocks are on their nodes,
\* each block has block_size bytes and every bit of the parity block is the
\* sum modulo 2 of that bit of the stripe's data blocks.
ParityInvariant ==
    \A k \in Committed :
        \A i \in 0..(NumStripes(file_metadata[k]) - 1) :
            StripeHeld(file_metadata[k], i) =>
                LET par == file_metadata[k].parity_blocks[i + 1]
                    data == DataOfStripe(file_metadata[k], i)
                    bytes == node_blocks[par[2]][par[1]]
                IN /\ Len(bytes) = block_size
                   /\ \A n \in 1..Len(data) :
                          Len(node_blocks[data[n][2]][data[n][1]]) = block_size
                   /\ \A p \in 1..block_size : \A b \in 0..7 :
                          Bit(bytes[p], b) = SumBits(data, p, b, 1) % 2

ParityInvariantWitness ==
    /\ last.op = "delete"
    /\ last.result = "ok"
    /\ \E k \in Committed :
           /\ NumStripes(file_metadata[k]) >= 1
           /\ StripeHeld(file_metadata[k], 0)
           /\ Len(DataOfStripe(file_metadata[k], 0)) = num_disks - 1

HoldersOf(k) ==
    {d \in DiskIds :
        \E b \in DOMAIN node_blocks[d] :
            SubSeq(b, 1, Len(FileIdStr(k))) = FileIdStr(k)}

\* C11: right after a delete that succeeded, no node that is up holds a block
\* file of the deleted file.
DeleteRemovesBlocks ==
    (coordinator_up /\ last.op = "delete" /\ last.result = "ok")
        => \A d \in node_up : d \notin HoldersOf(last.file_id)

\* C12: a download or a delete of an unknown file id is answered 404, an
\* upload without a filename is answered 400, and 500 is only the answer to
\* a download that could not be rebuilt.
ApiStatusCodes ==
    /\ (last.op \in {"download", "delete"} /\ last.result = NotFound)
           => status_code = 404
    /\ (last.op = "upload" /\ Len(last.filename) = 0) => status_code = 400
    /\ status_code = 500 => (last.op = "download" /\ last.result = Unrecoverable)

\* C13: a node that answered 507 to a store keeps its liveness flag online,
\* and the upload whose store was refused is reported as failed and commits
\* nothing.
FullNodeStaysOnline ==
    (coordinator_up /\ last.op = "upload" /\ last_full # {})
        => /\ \A d \in last_full : disk_nodes[d] = Online
           /\ status_code >= 400
           /\ last.file_id \notin Committed

\* the disk ids metadata.blocks records a data block of the file on
DataNodesOf(metadata) == {metadata.blocks[n][2] : n \in 1..Len(metadata.blocks)}

\* every data block recorded on node d is in d's storage directory
AllHeldOn(metadata, d) ==
    \A n \in 1..Len(metadata.blocks) :
        metadata.blocks[n][2] = d => Held(metadata.blocks[n])

\* C14: in a download, a node flagged online that is asked for a data block
\* ends flagged offline when it does not answer or answers 500, and stays
\* flagged online when it answers 200 or 404.
RetrieveClassification ==
    [][(last'.op = "download" /\ last'.file_id \in Committed)
          => \A d \in DataNodesOf(file_metadata[last'.file_id]) :
                 disk_nodes[d] = Online =>
                     /\ d \notin node_up => disk_nodes'[d] = Offline
                     /\ (d \in node_up /\ d \in node_io_error
                            /\ AllHeldOn(file_metadata[last'.file_id], d))
                            => disk_nodes'[d] = Offline
                     /\ (d \in node_up /\ d \notin node_io_error)
                            => disk_nodes'[d] = Online]_vars

\* metadata.json is there and json.load rejects it
Unparsable == metadata_doc.exists /\ ~metadata_doc.complete

\* C15: with an unparsable metadata.json no start-up leaves the coordinator
\* running, and the document stays as it is while the coordinator is down.
CorruptDocStopsStart ==
    [][Unparsable =>
          /\ last'.op \in {"start", "restart"} => ~coordinator_up'
          /\ ~coordinator_up => metadata_doc' = metadata_doc]_vars

\* C16: whenever the coordinator is down, metadata.json is absent or is a
\* complete document.
CrashAtomicSave == ~coordinator_up => ~Unparsable

\* the file ids of the records a start-up would load
PersistedFiles ==
    IF metadata_doc.exists /\ metadata_doc.complete THEN DOMAIN metadata_doc.files ELSE {}

StripeNumbersOf(k) == {stripe_numbers[k][n] : n \in 1..Len(stripe_numbers[k])}

VisibleIffDurable ==
    coordinator_up =>
        /\ \A k \in Committed : k \in PersistedFiles
        /\ (last.op = "upload" /\ last.result = "ok" /\ status_code = 200)
               => last.file_id \in PersistedFiles

\* the block ids, data and parity, of a metadata record
BlockIdsOf(metadata) ==
    {metadata.blocks[n][1] : n \in 1..Len(metadata.blocks)}
        \cup {metadata.parity_blocks[n][1] : n \in 1..Len(metadata.parity_blocks)}

\* C19: two uploads that were in flight at the same time have no global
\* stripe number in common, the record of each is in the metadata map and in
\* the document until it is deleted, and they have no block id in common.
ConcurrentUploadsDisjoint ==
    \A k1, k2 \in overlapped :
        k1 # k2 =>
            /\ StripeNumbersOf(k1) \cap StripeNumbersOf(k2) = {}
            /\ k1 \in deleted \/ (k1 \in Committed /\ k1 \in PersistedFiles)
            /\ (k1 \in Committed /\ k2 \in Committed)
                   => BlockIdsOf(file_metadata[k1]) \cap BlockIdsOf(file_metadata[k2]) = {}

ConcurrentUploadsWitness ==
    /\ last.op = "upload"
    /\ overlapped = {1, 2}
    /\ Committed = {1, 2}
    /\ StripeNumbersOf(1) # {}
    /\ StripeNumbersOf(2) # {}
    /\ in_flight = <<>>

\* C20: after one node outage, with every node up again, a download of a
\* file whose blocks were all stored returns the uploaded bytes without
\* calling _reconstruct_data.  (No upload or delete met the node while it
\* was down: only a download can have flagged it offline.)
Rehabilitation ==
    (/\ last.op = "download"
     /\ last.file_id \in Committed
     /\ node_up = DiskIds
     /\ fail_count = 1
     /\ \A k \in 1..Len(uploads) : uploads[k].stores_ok
     /\ deleted = {})
        => /\ last.result = "ok"
           /\ last.content = uploads[last.file_id].content
           /\ ~reconstruction_ran

\* the file ids uploads have returned and no delete has removed
Returned == (1..uuid_count) \ deleted

DeleteUnknownNoChange ==
    [][(last'.op = "delete" /\ last'.file_id \notin DOMAIN file_metadata)
          => /\ last'.result = NotFound
             /\ file_metadata' = file_metadata
             /\ next_stripe_number' = next_stripe_number
             /\ metadata_doc' = metadata_doc
             /\ disk_nodes' = disk_nodes
             /\ node_blocks' = node_blocks
             /\ node_used' = node_used
             /\ deleted' = deleted]_vars

DeleteUnknownWitness ==
    /\ last.op = "delete"
    /\ last.result = NotFound
    /\ last.file_id \in deleted
    /\ Committed # {}
    /\ ~AllOnline
    /\ \E d \in DiskIds : DOMAIN node_blocks[d] # {}

IsUpper(c) == c \in 65..90

IsLower(c) == c \in 97..122

\* two ASCII characters that are equal when case is ignored
SameLetter(a, b) ==
    \/ a = b
    \/ IsUpper(a) /\ b = a + 32
    \/ IsLower(a) /\ b = a - 32

\* q occurs in name at some offset, case ignored
Matches(q, name) ==
    \E i \in 0..(Len(name) - Len(q)) :
        \A j \in 1..Len(q) : SameLetter(q[j], name[i + j])

\* C23: a search answers 200 with exactly the committed files whose filename
\* contains the query when case is ignored (every file for the empty query),
\* and changes neither the coordinator's state nor the nodes.
SearchExact ==
    [][last'.op = "search"
          => /\ answer' = {k \in DOMAIN file_metadata :
                              Matches(last'.filename, file_metadata[k].filename)}
             /\ Len(last'.filename) = 0 => answer' = DOMAIN file_metadata
             /\ status_code' = 200
             /\ UNCHANGED <<coordVars, nodeVars>>]_vars

SearchExactWitness ==
    /\ last.op = "search"
    /\ last.filename = <<65, 66>>
    /\ Committed = {1, 2}
    /\ file_metadata[1].filename = <<65>>
    /\ file_metadata[2].filename = <<97, 98>>
    /\ answer = {2}

\* the data index parsed back from the id of a data block
DataIndexOf(block_id) == StrToInt(Split(block_id)[Len(Split(block_id))])

\* (stripe index, data index) of a comes before that of b
NumericLess(a, b) ==
    \/ StripeIndexOf(a) < StripeIndexOf(b)
    \/ StripeIndexOf(a) = StripeIndexOf(b) /\ DataIndexOf(a) < DataIndexOf(b)

\* C24: the order in which a download concatenates the data blocks of the
\* file is the increasing order of (stripe index, data index).
ConcatNumericOrder ==
    (last.op = "download" /\ last.file_id \in Committed) =>
        \A ids \in {Sorted(Keys(file_metadata[last.file_id].blocks))} :
            \A n \in 1..(Len(ids) - 1) : NumericLess(ids[n], ids[n + 1])

\* the j-th (from 0) of the node indices 0..num_disks-1 other than p, ascending
NthDataNode(p, j) ==
    CHOOSE e \in (0..(num_disks - 1)) \ {p} :
        Cardinality({x \in (0..(num_disks - 1)) \ {p} : x < e}) = j

\* C25: in every committed file, data block j of the stripe with global
\* number S is recorded on the j-th node index other than S mod num_disks in
\* ascending order, the parity block of that stripe on node index
\* S mod num_disks, and a block found in a node's directory is found on the
\* node its record names.
PlacementRule ==
    \A k \in Committed :
        \A metadata \in {file_metadata[k]} :
            /\ \A n \in 1..Len(metadata.blocks) :
                   \A id \in {metadata.blocks[n][1]} :
                       /\ DataIndexOf(id) \in 0..(num_disks - 2)
                       /\ metadata.blocks[n][2] =
                              1 + NthDataNode(stripe_numbers[k][StripeIndexOf(id) + 1]
                                                  % num_disks,
                                              DataIndexOf(id))
            /\ \A n \in 1..Len(metadata.parity_blocks) :
                   metadata.parity_blocks[n][2] =
                       1 + (stripe_numbers[k][StripeIndexOf(metadata.parity_blocks[n][1]) + 1]
                                % num_disks)
            /\ \A d \in DiskIds : \A b \in DOMAIN node_blocks[d] :
                   /\ HasKey(metadata.blocks, b) => Get(metadata.blocks, b) = d
                   /\ HasKey(metadata.parity_blocks, b) => Get(metadata.parity_blocks, b) = d

PlacementRuleWitness ==
    /\ last.op = "upload"
    /\ Committed = {1, 2}
    /\ NumStripes(file_metadata[2]) = LongStripes
    /\ stripe_numbers[2][1] = 1
    /\ Len(DataOfStripe(file_metadata[2], 2)) = num_disks - 1
    /\ \A d \in DiskIds : DOMAIN node_blocks[d] # {}

\* the coordinator can read the block of this <<block id, disk id>> entry
Retrievable(entry) ==
    /\ disk_nodes[entry[2]] = Online
    /\ entry[2] \in node_up
    /\ entry[2] \notin node_io_error
    /\ Held(entry)

\* the data blocks of stripe i that cannot be read
MissingOf(metadata, i) ==
    {e \in {DataOfStripe(metadata, i)[n] : n \in 1..Len(DataOfStripe(metadata, i))} :
        ~Retrievable(e)}

\* stripe i misses exactly one data block and its parity block can be read
Rebuildable(metadata, i) ==
    /\ Cardinality(MissingOf(metadata, i)) = 1
    /\ Retrievable(metadata.parity_blocks[i + 1])

\* data block j of stripe i of a file with this content, as it was written:
\* the bytes of the file at that place, zeros after its end
OriginalBlock(content, i, j) ==
    [p \in 1..block_size |->
        IF i * StripePayload + j * block_size + p <= Len(content)
        THEN content[i * StripePayload + j * block_size + p]
        ELSE 0]

\* C26: in a download, a block _reconstruct_data returns for a stripe that
\* misses exactly one data block, with the parity block readable, is the block
\* written under that id at upload; and when every stripe of the file is
\* whole or misses exactly one data block in that way, every missing block
\* is returned and the download succeeds.
ReconstructionCorrect ==
    [][(last'.op = "download" /\ last'.file_id \in Committed) =>
          \A metadata \in {file_metadata[last'.file_id]} :
              /\ \A n \in 1..Len(reconstructed_data') :
                     \A id \in {reconstructed_data'[n][1]} :
                         Rebuildable(metadata, StripeIndexOf(id)) =>
                             reconstructed_data'[n][2] =
                                 OriginalBlock(uploads[last'.file_id].content,
                                               StripeIndexOf(id), DataIndexOf(id))
              /\ (\A i \in 0..(NumStripes(metadata) - 1) :
                      MissingOf(metadata, i) = {} \/ Rebuildable(metadata, i))
                     => /\ \A i \in 0..(NumStripes(metadata) - 1) :
                               \A e \in MissingOf(metadata, i) :
                                   HasKey(reconstructed_data', e[1])
                        /\ last'.result = "ok"
                        /\ last'.content = uploads[last'.file_id].content]_vars

ReconstructionWitness ==
    /\ last.op = "download"
    /\ last.result = "ok"
    /\ Len(reconstructed_data) = 2
    /\ StripeIndexOf(reconstructed_data[1][1]) # StripeIndexOf(reconstructed_data[2][1])
    /\ Len(DataOfStripe(file_metadata[last.file_id], 0)) = num_disks - 1

\* the longest of the byte strings of a non-empty list
MaxLength(blocks) ==
    CHOOSE m \in {Len(blocks[n]) : n \in 1..Len(blocks)} :
        \A n \in 1..Len(blocks) : Len(blocks[n]) <= m

\* how many of the byte strings have bit b set in their i-th byte
BitCount(blocks, i, b) ==
    Cardinality({n \in 1..Len(blocks) : i <= Len(blocks[n]) /\ Bit(blocks[n][i], b) = 1})

\* the list taken in the order f, a permutation of its positions
Reordered(blocks, f) == [n \in 1..Len(blocks) |-> blocks[f[n]]]

\* C27: for the empty list the codec returns the empty byte string; for a
\* non-empty list it returns a byte string as long as the longest input,
\* each bit of which is the sum modulo 2 of that bit over the inputs that
\* reach that position, and the same byte string for every order of the list.
ParityCodec ==
    codec_output.called =>
        /\ Len(codec_input) = 0 => codec_output.parity = <<>>
        /\ Len(codec_input) > 0 =>
               /\ Len(codec_output.parity) = MaxLength(codec_input)
               /\ \A i \in 1..Len(codec_output.parity) : \A b \in 0..7 :
                      Bit(codec_output.parity[i], b) = BitCount(codec_input, i, b) % 2
        /\ \A f \in Permutations(1..Len(codec_input)) :
               _calculate_parity(Reordered(codec_input, f)) = codec_output.parity

ParityCodecWitness ==
    /\ codec_output.called
    /\ codec_input = <<<<5>>, <<255, 5>>, <<>>>>
    /\ codec_output.parity = <<250, 5>>

\* the least number of stripes of StripePayload bytes that hold L bytes
StripesFor(L) ==
    CHOOSE c \in 0..L : c * StripePayload >= L /\ (c = 0 \/ (c - 1) * StripePayload < L)

\* C28: an upload of L bytes records as many parity blocks as the least
\* number of stripe payloads that hold L bytes (none for the empty file),
\* with the per-file stripe indexes 0, 1, ... in order, and advances the
\* stripe counter by that number; a download, delete, list, search or status
\* request leaves the counter as it is; short of a restart, the counter
\* never decreases.
StripeAccounting ==
    [][/\ (last'.op = "upload" /\ last'.result = "ok") =>
              \A k \in {last'.file_id} : \A count \in {StripesFor(Len(uploads'[k].content))} :
                  /\ Len(file_metadata'[k].parity_blocks) = count
                  /\ \A n \in 1..count :
                         file_metadata'[k].parity_blocks[n][1] =
                             _get_block_id(FileIdStr(k), ParityIndex(n - 1))
                  /\ {StripeIndexOf(file_metadata'[k].blocks[n][1]) :
                          n \in 1..Len(file_metadata'[k].blocks)} = 0..(count - 1)
                  /\ next_stripe_number' = next_stripe_number + count
       /\ last'.op \in {"download", "delete", "list", "search", "status"}
              => next_stripe_number' = next_stripe_number
       /\ last'.op # "restart" => next_stripe_number' >= next_stripe_number]_vars

StripeAccountingWitness ==
    /\ last.op = "upload"
    /\ uuid_count = 2
    /\ Len(uploads[1].content) = StripePayload
    /\ Len(uploads[2].content) = 2 * StripePayload
    /\ next_stripe_number = 3
    /\ Committed = {2}

DeleteFrame ==
    [][/\ (/\ last'.op = "delete"
           /\ last'.result = "ok"
           /\ last'.file_id \in Committed) =>
              \A k \in {last'.file_id} :
                  /\ next_stripe_number' = next_stripe_number
                  /\ DOMAIN file_metadata' = Committed \ {k}
                  /\ \A g \in Committed \ {k} : file_metadata'[g] = file_metadata[g]
                  /\ \A d \in DiskIds : \A b \in DOMAIN node_blocks[d] :
                         b \notin BlockIdsOf(file_metadata[k]) =>
                             /\ b \in DOMAIN node_blocks'[d]
                             /\ node_blocks'[d][b] = node_blocks[d][b]
       /\ (/\ last.op = "delete"
           /\ last.result = "ok"
           /\ last'.op = "download"
           /\ last'.file_id \in Committed
           /\ last_download.op = "download"
           /\ last_download.file_id = last'.file_id) =>
              last' = last_download]_vars

\* C32: on every node, after any sequence of /store and /delete requests,
\* used_space_bytes is the sum of the sizes of the block files the node
\* holds and is at most capacity_bytes; a store answered 507 leaves the
\* node's block files and used_space_bytes as they were.
NodeAccounting ==
    [][/\ \A d \in DiskIds :
              /\ node_used'[d] = get_directory_size(node_blocks'[d])
              /\ node_used'[d] <= node_capacity'[d]
       /\ (last'.op = "store" /\ status_code' = 507) =>
              /\ node_blocks' = node_blocks
              /\ node_used' = node_used]_vars

====
